---- MODULE Spec2Model ----
(***************************************************************************)
(* dht-tester: a fleet of libp2p/kad-dht nodes (tester), the JSON-RPC      *)
(* control plane over the fleet (rpc.go), and the round-robin test client  *)
(* (cmd/client/main.go, second program of the file).                       *)
(*                                                                         *)
(* Nine specifications share the module:                                  *)
(*   SpecRpc    - DHTService handlers dispatching over a fixed fleet       *)
(*   SpecClient - the test client's run() and its lookup() goroutine       *)
(*   Spec       - the tester's run(): create, start (bootstrap), serve,    *)
(*                stop                                                     *)
(*   SpecBoot   - host.start() alone, over an arbitrary bootnodes list     *)
(*   SpecCap    - host.start() of the last node of a large fleet           *)
(*   SpecServe  - run() with the requests its server dispatches            *)
(*   SpecLive   - SpecServe under a fair scheduler                         *)
(*   SpecGen    - the tester and the test client each generating its test  *)
(*                CIDs at startup                                          *)
(*   SpecMany   - one of the two programs generating many test CIDs        *)
(* The DHT and the libp2p transport are external: every call into them     *)
(* (Connect, Bootstrap, Provide, FindProviders, Close) is a                *)
(* nondeterministic choice over its outcomes.                              *)
(***************************************************************************)
EXTENDS Integers, Sequences, FiniteSets, TLC

\* ---------------------------------------------------------------- bounds
MaxHosts == 3
MaxCids == 2
IndexSlack == 1
MaxBatch == 2
MaxGenCount == 10
MaxRegistry == 14
MaxManyCids == 257

\* ------------------------------------------------------------- constants
\* binary.LittleEndian.PutUint64 writes 8 bytes
BufLen == 8
\* a byte holds 256 values
ByteRange == 256

VARIABLES
    \* ---- control plane (rpc.go)
    svcHosts,    \* DHTService.hosts: the peer identifier of each host, by index
    rpcReq,      \* the request being served
    rpcResp,     \* what the caller of that request gets back
    nodeCalls,   \* the calls into node logic made while serving it
    cliOut,      \* the CLI command that issued the request, if one did
    \* ---- test client (cmd/client/main.go)
    cids,        \* test CIDs generated at startup
    numHosts,    \* the count dht_numHosts returned
    provides,    \* map[cid.Cid][]peer.ID, the expected providers
    provideLog,  \* the dht_provide calls issued, in order
    assignIdx,   \* i of the assignment loop
    mainPc,      \* position of the main goroutine in run()
    exit,        \* how the process ended, or "running"
    lkPc,        \* position of the goroutine running lookup()
    lkKeys,      \* keys of provides the range loop has not reached yet
    lkKey,       \* key of the current iteration of the range loop
    lkI,         \* i of the inner loop over hosts
    keyIdx,      \* keyIdx of lookup()
    lookupLog,   \* the dht_lookup calls issued, in order
    lkLast,      \* what the last dht_lookup call returned
    lkErr,       \* the error lookup() returned
    doneCh,      \* number of times doneCh was closed
    budgetExpired, \* time.After(duration) has fired
    \* ---- tester (run() and host)
    count,       \* --count
    autoTest,    \* --auto
    testerCids,  \* the tester's own cids, generated at startup
    hosts,       \* hosts of run(): the host objects, in creation order
    bootnodes,   \* list of all nodes' AddrInfo (their peer identifiers)
    runPc,       \* position of run()
    runI,        \* index of the loop run() is in
    boot,        \* the last bootstrap pass: what host.bootstrap() did
    startErr,    \* what the last start() returned
    initProvides, \* the dht.Provide calls of run()'s provide pass
    server,      \* the RPC server: "none", "serving" or "closed"
    round,       \* the last tick of a periodic task and what it issued
    testerExit,  \* how the tester process ended, or "running"
    runErr,      \* the step whose error (or panic) ended run(), or "none"
    lastStop,    \* the last host.stop(): what it did and returned
    keyLoad      \* newHost() of the creation loop: what became of the key file

rpcVars == <<svcHosts, rpcReq, rpcResp, nodeCalls, cliOut>>
clientVars == <<cids, numHosts, provides, provideLog, assignIdx, mainPc, exit,
                lkPc, lkKeys, lkKey, lkI, keyIdx, lookupLog, lkLast, lkErr,
                doneCh, budgetExpired>>
testerVars == <<count, autoTest, testerCids, hosts, bootnodes, runPc, runI, boot,
                startErr, initProvides, server, round, testerExit, runErr,
                lastStop, keyLoad>>
vars == <<rpcVars, clientVars, testerVars>>

\* ------------------------------------------------------------ identities
\* newHost: the key of node i is loaded from (or generated into) node-<i>.key,
\* and the peer identifier is derived from it: one identifier per index.
PeerID(i) == <<"peer", i>>

\* getTestCIDs: the multihash input of the i-th test CID, base label followed
\* by the little-endian 8-byte encoding of i (the digest is taken as injective).
RECURSIVE ShiftBytes(_, _)
ShiftBytes(i, k) == IF k = 0 THEN i ELSE ShiftBytes(i \div ByteRange, k - 1)

LittleEndianPutUint64(i) == [k \in 1..BufLen |-> ShiftBytes(i, k - 1) % ByteRange]

TestCID(i) == <<"dhttest", LittleEndianPutUint64(i)>>

getTestCIDs(n) == [k \in 1..n |-> TestCID(k - 1)]

CidUniverse == {TestCID(i) : i \in 0..(MaxCids - 1)}

SeqsUpTo(S, n) == UNION {[1..k -> S] : k \in 0..n}

\* ================================================================ rpc.go
NoReq == [method |-> "none"]
NoResp == [kind |-> "none"]
NoCli == [cmd |-> "none"]
ErrHostIndexTooHigh == [kind |-> "error", msg |-> "host index too high"]
\* a run-time panic inside a handler: net/http recovers it, logs it and drops
\* the connection; the caller gets no JSON-RPC response at all
HandlerPanic == [kind |-> "fault", msg |-> "runtime error: index out of range"]

\* the guard of Provide, Lookup and Id
IndexTooHigh_mutOffByOne(hostIndex, n) == hostIndex > n

IndexTooHigh(hostIndex, n) == hostIndex >= n

\* s.hosts[req.HostIndex]: Go's bounds check on the slice
InBounds(hostIndex, n) == 0 <= hostIndex /\ hostIndex < n

\* host.provide: one dht.Provide per identifier of the batch, in order;
\* a failure is logged and the loop continues
provide_mutReturnOnError(hostIndex, batch, oks) ==
    LET n == IF \E k \in 1..Len(batch) : ~oks[k]
             THEN CHOOSE k \in 1..Len(batch) :
                      ~oks[k] /\ \A j \in 1..(k - 1) : oks[j]
             ELSE Len(batch)
    IN [k \in 1..n |->
           [host |-> hostIndex, op |-> "provide", cid |-> batch[k], ok |-> oks[k]]]

provide(hostIndex, batch, oks) ==
    [k \in 1..Len(batch) |->
        [host |-> hostIndex, op |-> "provide", cid |-> batch[k], ok |-> oks[k]]]

HostIndices == (0 - IndexSlack)..(MaxHosts + IndexSlack)

NoErr == [kind |-> "none"]
NoKey == <<>>
NoLookup == [kind |-> "none"]

ClientIdle ==
    /\ cids = <<>>
    /\ numHosts = 0
    /\ provides = <<>>
    /\ provideLog = <<>>
    /\ assignIdx = 0
    /\ mainPc = "off"
    /\ exit = "running"
    /\ lkPc = "off"
    /\ lkKeys = {}
    /\ lkKey = NoKey
    /\ lkI = 0
    /\ keyIdx = 0
    /\ lookupLog = <<>>
    /\ lkLast = NoLookup
    /\ lkErr = NoErr
    /\ doneCh = 0
    /\ budgetExpired = FALSE

NoBoot == [host |-> -1]
NoRound == [host |-> -1]
NoStop == [host |-> -1]
NoKeyLoad == [host |-> -1]

TesterIdle ==
    /\ count = 0
    /\ autoTest = FALSE
    /\ testerCids = <<>>
    /\ hosts = <<>>
    /\ bootnodes = <<>>
    /\ runPc = "off"
    /\ runI = 0
    /\ boot = NoBoot
    /\ startErr = "none"
    /\ initProvides = <<>>
    /\ server = "none"
    /\ round = NoRound
    /\ testerExit = "running"
    /\ runErr = "none"
    /\ lastStop = NoStop
    /\ keyLoad = NoKeyLoad

InitRpc ==
    /\ ClientIdle
    /\ TesterIdle
    /\ svcHosts \in {[k \in 1..n |-> PeerID(k - 1)] : n \in 0..MaxHosts}
    /\ rpcReq = NoReq
    /\ rpcResp = NoResp
    /\ nodeCalls = <<>>
    /\ cliOut = NoCli

NumHosts ==
    /\ rpcReq' = [method |-> "dht_numHosts"]
    /\ rpcResp' = [kind |-> "result", numHosts |-> Len(svcHosts)]
    /\ nodeCalls' = <<>>
    /\ UNCHANGED svcHosts

Provide ==
    \E hostIndex \in HostIndices, batch \in SeqsUpTo(CidUniverse, MaxBatch) :
        /\ rpcReq' = [method |-> "dht_provide", hostIndex |-> hostIndex, cids |-> batch]
        /\ IF IndexTooHigh(hostIndex, Len(svcHosts))
           THEN rpcResp' = ErrHostIndexTooHigh /\ nodeCalls' = <<>>
           ELSE IF ~InBounds(hostIndex, Len(svcHosts))
           THEN rpcResp' = HandlerPanic /\ nodeCalls' = <<>>
           ELSE \E oks \in [1..Len(batch) -> BOOLEAN] :
                   /\ nodeCalls' = provide(hostIndex, batch, oks)
                   /\ rpcResp' = [kind |-> "result"]
        /\ UNCHANGED svcHosts

PrefixLengths == {-1, 0, 256, 257}

\* host.lookup(target, prefixLength), the two-result lookup the handler calls:
\* the providers the DHT query found (possibly none) with no error, or the
\* error of the query
lookup(found, dhtErr) ==
    IF dhtErr THEN [provs |-> {}, err |-> "lookup failed"]
    ELSE [provs |-> found, err |-> "nil"]

\* provs, err := ...lookup(...); if err != nil { return err };
\* resp.Providers = provs; return nil
lookupResponse_mutEmptyIsError(r) ==
    IF r.err # "nil" \/ r.provs = {}
    THEN [kind |-> "error", msg |-> "lookup failed"]
    ELSE [kind |-> "result", providers |-> r.provs]

lookupResponse(r) ==
    IF r.err # "nil"
    THEN [kind |-> "error", msg |-> r.err]
    ELSE [kind |-> "result", providers |-> r.provs]

dhtLookup(hostIndex, target, prefixLength) ==
        /\ rpcReq' = [method |-> "dht_lookup", hostIndex |-> hostIndex,
                      cid |-> target, prefixLength |-> prefixLength]
        /\ IF IndexTooHigh(hostIndex, Len(svcHosts))
           THEN rpcResp' = ErrHostIndexTooHigh /\ nodeCalls' = <<>>
           ELSE IF ~InBounds(hostIndex, Len(svcHosts))
           THEN rpcResp' = HandlerPanic /\ nodeCalls' = <<>>
           ELSE \E dhtErr \in BOOLEAN,
                   found \in SUBSET {svcHosts[k] : k \in 1..Len(svcHosts)} :
                   /\ dhtErr => found = {}
                   /\ nodeCalls' = <<[host |-> hostIndex, op |-> "lookup",
                                      cid |-> target, ok |-> ~dhtErr,
                                      found |-> found]>>
                   /\ rpcResp' = lookupResponse(lookup(found, dhtErr))
        /\ UNCHANGED svcHosts

\* a dht_lookup request posted to the server by any JSON-RPC caller
Lookup ==
    \E hostIndex \in HostIndices, target \in CidUniverse, prefixLength \in PrefixLengths :
        dhtLookup(hostIndex, target, prefixLength)

\* s.hosts[req.HostIndex], past the guard and the bounds check
hostAt_mutNextHost(hs, hostIndex) == hs[((hostIndex + 1) % Len(hs)) + 1]

hostAt(hs, hostIndex) == hs[hostIndex + 1]

Id ==
    \E hostIndex \in HostIndices :
        /\ rpcReq' = [method |-> "dht_id", hostIndex |-> hostIndex]
        /\ IF IndexTooHigh(hostIndex, Len(svcHosts))
           THEN rpcResp' = ErrHostIndexTooHigh /\ nodeCalls' = <<>>
           ELSE IF ~InBounds(hostIndex, Len(svcHosts))
           THEN rpcResp' = HandlerPanic /\ nodeCalls' = <<>>
           ELSE /\ nodeCalls' = <<[host |-> hostIndex, op |-> "id"]>>
                /\ rpcResp' = [kind |-> "result", peerID |-> hostAt(svcHosts, hostIndex)]
        /\ UNCHANGED svcHosts

\* dht-tester-cli lookup: --prefix-length is a UintFlag (a negative value is
\* refused when the flags are parsed); above 256 runLookup returns
\* errInvalidPrefixLength; otherwise client.Lookup posts dht_lookup
PrefixLengthLimit == 256

invalidPrefixLength(prefixLength) == prefixLength > PrefixLengthLimit

runLookup ==
    \E hostIndex \in HostIndices, target \in CidUniverse, prefixLength \in PrefixLengths :
        IF prefixLength < 0
        THEN /\ cliOut' = [cmd |-> "lookup", prefixLength |-> prefixLength,
                           err |-> "invalid value for flag"]
             /\ rpcReq' = NoReq
             /\ rpcResp' = NoResp
             /\ nodeCalls' = <<>>
             /\ UNCHANGED svcHosts
        ELSE IF invalidPrefixLength(prefixLength)
        THEN /\ cliOut' = [cmd |-> "lookup", prefixLength |-> prefixLength,
                           err |-> "errInvalidPrefixLength"]
             /\ rpcReq' = NoReq
             /\ rpcResp' = NoResp
             /\ nodeCalls' = <<>>
             /\ UNCHANGED svcHosts
        ELSE /\ dhtLookup(hostIndex, target, prefixLength)
             /\ cliOut' = [cmd |-> "lookup", prefixLength |-> prefixLength,
                           err |-> IF rpcResp'.kind = "result" THEN "nil"
                                   ELSE "failed to look up"]

RpcNext ==
    \/ NumHosts /\ cliOut' = NoCli /\ UNCHANGED <<clientVars, testerVars>>
    \/ Provide /\ cliOut' = NoCli /\ UNCHANGED <<clientVars, testerVars>>
    \/ Lookup /\ cliOut' = NoCli /\ UNCHANGED <<clientVars, testerVars>>
    \/ Id /\ cliOut' = NoCli /\ UNCHANGED <<clientVars, testerVars>>
    \/ runLookup /\ UNCHANGED <<clientVars, testerVars>>

SpecRpc == InitRpc /\ [][RpcNext]_vars

\* ------------------------------------------------------- claims, rpc.go
HasHostIndex == rpcReq.method \in {"dht_provide", "dht_lookup", "dht_id"}

\* C1: a dht_provide, dht_lookup or dht_id request whose hostIndex is >= the
\* number of hosts is answered with the index error, and no node logic
\* (provide, lookup, ID) is invoked for it.
C1_IndexTooHighRejected ==
    (HasHostIndex /\ rpcReq.hostIndex >= Len(svcHosts))
        => (rpcResp = ErrHostIndexTooHigh /\ nodeCalls = <<>>)

C1_Witness ==
    /\ rpcReq.method = "dht_lookup"
    /\ Len(svcHosts) = 2
    /\ rpcReq.hostIndex = 2
    /\ rpcResp = ErrHostIndexTooHigh

\* C2: a dht_provide, dht_lookup or dht_id request whose hostIndex is negative
\* is answered with an index error returned as an RPC error value (not a fault
\* of the server), and no node logic is invoked for it.
C2_NegativeIndexRejected ==
    (HasHostIndex /\ rpcReq.hostIndex < 0)
        => (rpcResp.kind = "error" /\ nodeCalls = <<>>)

\* C13: a dht_provide request served by a host makes exactly one dht.Provide
\* call per identifier of the batch, in batch order, whatever the outcome of
\* the calls before it.
C13_ProvideAttemptsWholeBatch ==
    (rpcReq.method = "dht_provide" /\ InBounds(rpcReq.hostIndex, Len(svcHosts)))
        => /\ Len(nodeCalls) = Len(rpcReq.cids)
           /\ \A k \in 1..Len(nodeCalls) :
                 /\ nodeCalls[k].op = "provide"
                 /\ nodeCalls[k].host = rpcReq.hostIndex
                 /\ nodeCalls[k].cid = rpcReq.cids[k]

C13_Witness ==
    /\ rpcReq.method = "dht_provide"
    /\ Len(rpcReq.cids) = 2
    /\ rpcReq.cids[1] # rpcReq.cids[2]
    /\ Len(nodeCalls) = 2
    /\ ~nodeCalls[1].ok
    /\ nodeCalls[2].cid = rpcReq.cids[2]
    /\ rpcResp = [kind |-> "result"]

C21_PrefixLengthBound ==
    /\ (cliOut.cmd = "lookup" /\ cliOut.prefixLength \notin 0..PrefixLengthLimit)
          => (cliOut.err # "nil" /\ nodeCalls = <<>>)
    /\ (rpcReq.method = "dht_lookup" /\ rpcReq.prefixLength \notin 0..PrefixLengthLimit)
          => (rpcResp.kind = "error" /\ nodeCalls = <<>>)

\* C22: no request changes the fleet the server was created with: the list
\* of hosts stays what it was, dht_numHosts answers its length and dht_id
\* answers, for a host index, the peer identifier that index had at creation.
C22_FleetMembershipFixed ==
    [][/\ svcHosts' = svcHosts
       /\ rpcReq'.method = "dht_numHosts" =>
             rpcResp' = [kind |-> "result", numHosts |-> Len(svcHosts)]
       /\ (rpcReq'.method = "dht_id" /\ rpcResp'.kind = "result") =>
             /\ rpcResp'.peerID = svcHosts[rpcReq'.hostIndex + 1]
             /\ rpcResp'.peerID = PeerID(rpcReq'.hostIndex)
      ]_vars

C22_Witness ==
    /\ Len(svcHosts) = 3
    /\ rpcReq.method = "dht_id"
    /\ rpcReq.hostIndex = 2
    /\ rpcResp = [kind |-> "result", peerID |-> PeerID(2)]

\* C39: a dht_provide request in which the DHT announce of an identifier
\* failed is answered with an error; an answer without error, on which the
\* test client records the host as a provider of the identifier, is given
\* only when every announce of the request succeeded.
C39_FailedAnnounceIsError ==
    rpcReq.method = "dht_provide" =>
        /\ (\E k \in 1..Len(nodeCalls) : ~nodeCalls[k].ok) => rpcResp.kind = "error"
        /\ rpcResp = [kind |-> "result"] =>
              \A k \in 1..Len(nodeCalls) : nodeCalls[k].ok

\* ================================== cmd/client/main.go (the test client)
RpcIdle ==
    /\ svcHosts = <<>>
    /\ rpcReq = NoReq
    /\ rpcResp = NoResp
    /\ nodeCalls = <<>>
    /\ cliOut = NoCli

\* the tester the client talks to, seen from the client: only its --auto and
\* --num-test-cids flags matter here
InitClient ==
    /\ RpcIdle
    /\ autoTest \in BOOLEAN
    /\ testerCids \in {getTestCIDs(n) : n \in 0..MaxCids}
    /\ count = 0
    /\ hosts = <<>>
    /\ bootnodes = <<>>
    /\ runPc = "off"
    /\ runI = 0
    /\ boot = NoBoot
    /\ startErr = "none"
    /\ initProvides = <<>>
    /\ server = "none"
    /\ round = NoRound
    /\ testerExit = "running"
    /\ runErr = "none"
    /\ lastStop = NoStop
    /\ keyLoad = NoKeyLoad
    /\ cids \in {getTestCIDs(n) : n \in 0..MaxCids}
    /\ numHosts = 0
    /\ provides = <<>>
    /\ provideLog = <<>>
    /\ assignIdx = 0
    /\ mainPc = "numHosts"
    /\ exit = "running"
    /\ lkPc = "off"
    /\ lkKeys = {}
    /\ lkKey = NoKey
    /\ lkI = 0
    /\ keyIdx = 0
    /\ lookupLog = <<>>
    /\ lkLast = NoLookup
    /\ lkErr = NoErr
    /\ doneCh = 0
    /\ budgetExpired = FALSE

lookupVars == <<lkPc, lkKeys, lkKey, lkI, keyIdx, lookupLog, lkLast, lkErr, doneCh>>

\* numHosts, err := client.NumHosts(); an error ends run(), and main() ends
\* the process through log.Fatal
CallNumHosts ==
    /\ mainPc = "numHosts"
    /\ exit = "running"
    /\ \E failed \in BOOLEAN, n \in 0..MaxHosts :
          IF failed
          THEN mainPc' = "returned" /\ exit' = "exit1" /\ UNCHANGED numHosts
          ELSE mainPc' = "assign" /\ numHosts' = n /\ UNCHANGED exit
    /\ UNCHANGED <<cids, provides, provideLog, assignIdx, budgetExpired>>
    /\ UNCHANGED lookupVars
    /\ UNCHANGED <<rpcVars, testerVars>>

\* idx := i % numHosts
firstIdx(i, n) == i % n

\* idx = (i + numHosts/2) % numHosts
secondIdx_mutNoOffset(i, n) == i % n

secondIdx(i, n) == (i + (n \div 2)) % n

\* providers, has := provides[c]; if !has {...} else {append}
record(provs, c, id) ==
    IF c \in DOMAIN provs
    THEN [provs EXCEPT ![c] = Append(@, id)]
    ELSE [k \in (DOMAIN provs) \cup {c} |-> IF k = c THEN <<id>> ELSE provs[k]]

\* one iteration of "for i, c := range cids": Provide and ID on the first
\* host, then Provide and ID on the second; the first RPC error ends run().
\* With numHosts = 0 the modulo panics (integer divide by zero).
AssignIter ==
    /\ mainPc = "assign"
    /\ exit = "running"
    /\ assignIdx < Len(cids)
    /\ LET i == assignIdx
           c == cids[assignIdx + 1]
       IN IF numHosts = 0
          THEN /\ mainPc' = "returned"
               /\ exit' = "panic"
               /\ UNCHANGED <<provides, provideLog, assignIdx>>
          ELSE LET idx1 == firstIdx(i, numHosts)
                   idx2 == secondIdx(i, numHosts)
                   p1 == record(provides, c, PeerID(idx1))
                   p2 == record(p1, c, PeerID(idx2))
                   call1 == [hostIndex |-> idx1, cid |-> c]
                   call2 == [hostIndex |-> idx2, cid |-> c]
               IN \E outcome \in {"ok", "errProvide1", "errID1", "errProvide2", "errID2"} :
                     /\ provideLog' =
                           IF outcome \in {"errProvide1", "errID1"}
                           THEN Append(provideLog, call1)
                           ELSE provideLog \o <<call1, call2>>
                     /\ provides' =
                           IF outcome \in {"errProvide1", "errID1"} THEN provides
                           ELSE IF outcome \in {"errProvide2", "errID2"} THEN p1
                           ELSE p2
                     /\ IF outcome = "ok"
                        THEN assignIdx' = i + 1 /\ UNCHANGED <<mainPc, exit>>
                        ELSE mainPc' = "returned" /\ exit' = "exit1" /\ UNCHANGED assignIdx
    /\ UNCHANGED <<cids, numHosts, budgetExpired>>
    /\ UNCHANGED lookupVars
    /\ UNCHANGED <<rpcVars, testerVars>>

\* doneCh := make(chan struct{}); go func() { lookup(...) }(); then
\* time.ParseDuration, whose error ends run()
SpawnLookup ==
    /\ mainPc = "assign"
    /\ exit = "running"
    /\ assignIdx = Len(cids)
    /\ lkPc' = "loop"
    /\ lkKeys' = DOMAIN provides
    /\ \E parseOk \in BOOLEAN :
          IF parseOk
          THEN mainPc' = "select" /\ UNCHANGED exit
          ELSE mainPc' = "returned" /\ exit' = "exit1"
    /\ UNCHANGED <<cids, numHosts, provides, provideLog, assignIdx, budgetExpired>>
    /\ UNCHANGED <<lkKey, lkI, keyIdx, lookupLog, lkLast, lkErr, doneCh>>
    /\ UNCHANGED <<rpcVars, testerVars>>

\* case <-doneCh: a receive on doneCh is ready once the channel is closed
closed_mutNever(ch) == FALSE

closed(ch) == ch > 0

\* select { case <-time.After(duration): case <-doneCh: }; return nil
SelectDone ==
    /\ mainPc = "select"
    /\ exit = "running"
    /\ closed(doneCh)
    /\ mainPc' = "returned"
    /\ exit' = "exit0"
    /\ UNCHANGED <<cids, numHosts, provides, provideLog, assignIdx, budgetExpired>>
    /\ UNCHANGED lookupVars
    /\ UNCHANGED <<rpcVars, testerVars>>

SelectTimeout ==
    /\ mainPc = "select"
    /\ exit = "running"
    /\ budgetExpired' = TRUE
    /\ mainPc' = "returned"
    /\ exit' = "exit0"
    /\ UNCHANGED <<cids, numHosts, provides, provideLog, assignIdx>>
    /\ UNCHANGED lookupVars
    /\ UNCHANGED <<rpcVars, testerVars>>

\* ---- lookup(), run by the goroutine
mainVars == <<cids, numHosts, provides, provideLog, assignIdx, mainPc, budgetExpired>>

\* for i := 0; i < numHosts; i++
moreHosts_mutSkipLast(i, n) == i < n - 1

moreHosts(i, n) == i < n

\* for key, provs := range provides: Go ranges over a map in no fixed order
LookupNextKey ==
    /\ lkPc = "loop"
    /\ exit = "running"
    /\ lkKey = NoKey \/ ~moreHosts(lkI, numHosts)
    /\ \E key \in lkKeys :
          /\ lkKey' = key
          /\ lkKeys' = lkKeys \ {key}
    /\ lkI' = 0
    /\ keyIdx' = IF lkKey = NoKey THEN keyIdx ELSE keyIdx + 1
    /\ UNCHANGED <<lkPc, lookupLog, lkLast, lkErr, doneCh, exit>>
    /\ UNCHANGED mainVars
    /\ UNCHANGED <<rpcVars, testerVars>>

\* provsMap := make(map[peer.ID]struct{}); for _, p := range provs {...}
provsMap(provs) == {provs[k] : k \in 1..Len(provs)}

\* the checks lookup() makes on what c.Lookup returned: the error message
\* it returns, or "none"
checkFound_mutNoEmptyCheck(res, provs) ==
    IF res.kind = "err" THEN "lookup failed"
    ELSE IF \E f \in res.found : f \notin provsMap(provs)
         THEN "found provider that doesn't have key"
         ELSE "none"

checkFound(res, provs) ==
    IF res.kind = "err" THEN "lookup failed"
    ELSE IF Cardinality(res.found) = 0 THEN "failed to find providers"
    ELSE IF \E f \in res.found : f \notin provsMap(provs)
         THEN "found provider that doesn't have key"
         ELSE "none"

\* fmt.Errorf("%d: ... key %s at host %d ...", keyIdx, key, i)
lookupError_mutSwappedArgs(msg, k, key, i) ==
    [kind |-> msg, key |-> key, host |-> k, keyIdx |-> i]

lookupError(msg, k, key, i) ==
    [kind |-> msg, key |-> key, host |-> i, keyIdx |-> k]

\* the peers that can hold a provider record of key in the DHT: the hosts the
\* client made provide it; the host that provided it in the tester's own
\* provide pass (hosts[i % count] for cids[i]); and, with --auto, any host, as
\* every periodic task provides getRandTestCID() of the tester's cids
mayProvide(key) ==
    LET fleet == {PeerID(j) : j \in 0..(numHosts - 1)}
        own == {k \in 1..Len(testerCids) : testerCids[k] = key}
    IN provsMap(provides[key])
       \cup {PeerID((k - 1) % numHosts) : k \in own}
       \cup (IF autoTest /\ own # {} THEN fleet ELSE {})

\* what c.Lookup can return: an error, or peers holding a provider record
LookupResults(key) ==
    {[kind |-> "err"]} \cup
    {[kind |-> "ok", found |-> S] : S \in SUBSET mayProvide(key)}

\* defer close(doneCh): doneCh counts the times the channel has been closed
close_mutLeaveOpen(ch) == ch

close(ch) == ch + 1

\* found, err := c.Lookup(i, key, prefixLength) and the checks on it; a
\* failed check returns the error, and the deferred close(doneCh) runs
LookupCall ==
    /\ lkPc = "loop"
    /\ exit = "running"
    /\ lkKey # NoKey
    /\ moreHosts(lkI, numHosts)
    /\ \E res \in LookupResults(lkKey) :
          LET msg == checkFound(res, provides[lkKey])
          IN /\ lookupLog' = Append(lookupLog, [key |-> lkKey, host |-> lkI])
             /\ lkLast' = res
             /\ IF msg = "none"
                THEN /\ lkI' = lkI + 1
                     /\ UNCHANGED <<lkPc, lkErr, doneCh>>
                ELSE /\ lkErr' = lookupError(msg, keyIdx, lkKey, lkI)
                     /\ doneCh' = close(doneCh)
                     /\ lkPc' = "returned"
                     /\ UNCHANGED lkI
    /\ UNCHANGED <<lkKeys, lkKey, keyIdx, exit>>
    /\ UNCHANGED mainVars
    /\ UNCHANGED <<rpcVars, testerVars>>

\* the range loop is over: return nil, and the deferred close(doneCh) runs
LookupReturnNil ==
    /\ lkPc = "loop"
    /\ exit = "running"
    /\ lkKey = NoKey \/ ~moreHosts(lkI, numHosts)
    /\ lkKeys = {}
    /\ doneCh' = close(doneCh)
    /\ lkPc' = "returned"
    /\ UNCHANGED <<lkKeys, lkKey, lkI, keyIdx, lookupLog, lkLast, lkErr, exit>>
    /\ UNCHANGED mainVars
    /\ UNCHANGED <<rpcVars, testerVars>>

\* back in the goroutine: if err != nil { panic(err) }
GoroutineEnd ==
    /\ lkPc = "returned"
    /\ exit = "running"
    /\ lkPc' = "ended"
    /\ exit' = IF lkErr # NoErr THEN "panic" ELSE exit
    /\ UNCHANGED <<lkKeys, lkKey, lkI, keyIdx, lookupLog, lkLast, lkErr, doneCh>>
    /\ UNCHANGED mainVars
    /\ UNCHANGED <<rpcVars, testerVars>>

ClientNext ==
    \/ CallNumHosts
    \/ AssignIter
    \/ SpawnLookup
    \/ SelectDone
    \/ SelectTimeout
    \/ LookupNextKey
    \/ LookupCall
    \/ LookupReturnNil
    \/ GoroutineEnd

SpecClient == InitClient /\ [][ClientNext]_vars

\* ------------------------------------------------- claims, test client
\* the peers recorded as expected providers of a key
expectedSet(key) == {provides[key][k] : k \in 1..Len(provides[key])}

lastCall == lookupLog[Len(lookupLog)]

\* C3 (as amended): lookup() returns an error if and only if a lookup it
\* issued returned an error, an empty provider list, or a peer identifier
\* outside the expected set of that identifier; every lookup is issued for a
\* key of the map at a host index in [0,numHosts); once it has failed, no
\* further lookup is issued and the verdict stays.
C3_VerdictIffBadLookup ==
    [][/\ (lkErr # NoErr) => (lookupLog' = lookupLog /\ lkErr' = lkErr)
       /\ (lookupLog' = lookupLog) => (lkErr' = lkErr)
       /\ (lookupLog' # lookupLog) =>
             LET call == lookupLog'[Len(lookupLog')]
                 res == lkLast'
             IN /\ call.key \in DOMAIN provides
                /\ call.host \in 0..(numHosts - 1)
                /\ (lkErr' # NoErr) <=>
                      \/ res.kind = "err"
                      \/ res.kind = "ok" /\ res.found = {}
                      \/ res.kind = "ok" /\ ~(res.found \subseteq expectedSet(call.key))
      ]_vars

C3_Witness ==
    /\ lkErr.kind = "failed to find providers"
    /\ Len(lookupLog) >= 2
    /\ lkLast = [kind |-> "ok", found |-> {}]

\* C3 as stated: the verification fails if and only if some lookup returned an
\* empty provider list or a peer identifier outside the expected set.
C3_Original ==
    (lkErr # NoErr) <=>
        /\ lkLast.kind = "ok"
        /\ \/ lkLast.found = {}
           \/ ~(lkLast.found \subseteq expectedSet(lastCall.key))

\* C4: once the verification task has detected a failure, and the duration
\* budget has not expired, the process never ends with exit code 0.
C4_FailureNeverExitsZero ==
    (lkErr # NoErr /\ ~budgetExpired) => exit # "exit0"

allPairs == {[key |-> k, host |-> h] : k \in DOMAIN provides, h \in 0..(numHosts - 1)}

\* C24: no pair is looked up twice and only pairs of the map with a host index
\* in [0,numHosts) are; when lookup() returns nil every such pair has been
\* looked up; when a lookup returned an error, lookup() has left its loop at
\* that call and its error carries that identifier and that host index.
C24_OneLookupPerPair ==
    /\ \A a, b \in 1..Len(lookupLog) : a # b => lookupLog[a] # lookupLog[b]
    /\ \A a \in 1..Len(lookupLog) : lookupLog[a] \in allPairs
    /\ (lkPc \in {"returned", "ended"} /\ lkErr = NoErr) =>
          {lookupLog[a] : a \in 1..Len(lookupLog)} = allPairs
    /\ (lookupLog # <<>> /\ lkLast.kind = "err") =>
          /\ lkPc \in {"returned", "ended"}
          /\ lkErr.kind = "lookup failed"
          /\ lkErr.key = lastCall.key
          /\ lkErr.host = lastCall.host

C24_Witness ==
    /\ lkPc = "returned"
    /\ lkErr = NoErr
    /\ numHosts = 2
    /\ Cardinality(DOMAIN provides) = 2
    /\ Len(lookupLog) = 4

\* C25: the lookups of one identifier are issued at hosts 0, 1, ... in
\* ascending order, all of them before the first lookup of another
\* identifier; a lookup is issued only while none has failed, so that the
\* error of lookup() carries the first failing (identifier, host) pair.
C25_NestedOrderFirstFailure ==
    [][LET L == lookupLog'
       IN /\ lookupLog' # lookupLog =>
                (lkErr = NoErr /\ L = Append(lookupLog, L[Len(L)]))
          /\ \A a \in 1..Len(L) :
                IF a = 1 \/ L[a - 1].key # L[a].key
                THEN /\ L[a].host = 0
                     /\ a > 1 => L[a - 1].host = numHosts' - 1
                     /\ \A b \in 1..(a - 1) : L[b].key # L[a].key
                ELSE L[a].host = L[a - 1].host + 1
          /\ lkErr' # NoErr =>
                (lkErr'.key = L[Len(L)].key /\ lkErr'.host = L[Len(L)].host)
      ]_vars

C25_Witness ==
    /\ numHosts = 3
    /\ Len(cids) = 2
    /\ lkErr.kind = "failed to find providers"
    /\ lkErr.key = cids[1]
    /\ lkErr.host = 1
    /\ lkLast = [kind |-> "ok", found |-> {}]
    /\ lastCall = [key |-> cids[1], host |-> 1]

\* C26: run() returns nil from its select only when doneCh has been closed or
\* the duration has expired; while it is in the select, the timeout case can
\* be taken whatever lookup() is doing, and the doneCh case can be taken as
\* soon as doneCh is closed, expired duration or not.
C26_EarlierOfDoneAndBudget ==
    /\ (mainPc = "returned" /\ exit = "exit0") => (doneCh > 0 \/ budgetExpired)
    /\ (mainPc = "select" /\ exit = "running") => ENABLED SelectTimeout
    /\ (mainPc = "select" /\ exit = "running" /\ doneCh > 0) => ENABLED SelectDone

C26_Witness ==
    /\ mainPc = "returned"
    /\ exit = "exit0"
    /\ budgetExpired
    /\ lkPc = "loop"
    /\ Len(lookupLog) = 1

\* C27: every provider list a lookup of the verification returned holds only
\* peer identifiers of the expected set of the identifier looked up, with
\* auto-test enabled in the tester as without.
C27_ResultsWithinExpectedSet ==
    (lookupLog # <<>> /\ lkLast.kind = "ok")
        => lkLast.found \subseteq expectedSet(lastCall.key)

\* C37: doneCh is closed once, and exactly when lookup() has returned, with
\* nil or with either kind of error; no lookup is made once it is closed.
C37_DoneClosedOnceAtReturn ==
    /\ [](/\ doneCh <= 1
          /\ closed(doneCh) <=> lkPc \in {"returned", "ended"}
          /\ lkErr # NoErr => closed(doneCh))
    /\ [][closed(doneCh) => lookupLog' = lookupLog /\ doneCh' = doneCh]_vars

C37_Witness ==
    /\ lkPc = "returned"
    /\ lkErr # NoErr
    /\ lkErr.kind = "failed to find providers"
    /\ Len(lookupLog) >= 2
    /\ doneCh = 1
    /\ exit = "running"

\* C36: for every fleet size reported by dht_numHosts, 0 and 1 included, the
\* assignment loop computes its host indices without faulting (the only
\* panic of the client is its lookup goroutine's), every index it uses lies
\* in [0, numHosts), and with two hosts or more the two hosts recorded for
\* an identifier differ.
C36_HostIndicesComputedSafely ==
    /\ exit = "panic" => lkPc # "off"
    /\ \A k \in 1..Len(provideLog) :
          0 <= provideLog[k].hostIndex /\ provideLog[k].hostIndex < numHosts
    /\ \A key \in DOMAIN provides :
          numHosts >= 2 /\ Len(provides[key]) = 2 =>
             provides[key][1] # provides[key][2]

\* ============================================ the tester: run() and host
\* const numPeers = 10
numPeers == 10

\* newHost: the host object of node i
newHost(i, auto) ==
    [index |-> i, id |-> PeerID(i), autoTest |-> auto,
     task |-> "none", cancelled |-> FALSE, closed |-> FALSE]

\* if addrInfo.ID == h.h.ID() { continue }
isSelf_mutNever(id, self) == FALSE

isSelf(id, self) == id = self

\* the loop of host.bootstrap over bootnodes, from position i (0-based):
\* the number of failed connections and the connections attempted
\* if i-failed > numPeers { break }
enough(i, failed) == i - failed > numPeers

RECURSIVE bootLoop(_, _, _, _, _)
bootLoop(reg, self, connOk, i, acc) ==
    IF i >= Len(reg) THEN acc
    ELSE IF isSelf(reg[i + 1], self) THEN bootLoop(reg, self, connOk, i + 1, acc)
    ELSE LET failed == IF connOk[i + 1] THEN acc.failed ELSE acc.failed + 1
             next == [failed |-> failed,
                      attempted |-> Append(acc.attempted,
                                           [entry |-> i, ok |-> connOk[i + 1]])]
         IN IF enough(i, failed) THEN next
            ELSE bootLoop(reg, self, connOk, i + 1, next)

\* if failed == len(bootnodes) && len(bootnodes) != 0
allFailed_mutAnyFailed(failed, n) == failed > 0 /\ n # 0

allFailed_mutNoEmptyCheck(failed, n) == failed = n

allFailed(failed, n) == failed = n /\ n # 0

\* host.bootstrap: the connection loop, the test of its outcome, and then
\* dht.Bootstrap (the warm-up), whose error is returned as it is
\* err := h.dht.Bootstrap(h.ctx); if err != nil { return err }; return nil
warmupResult_mutAsFailedToBootstrap(warmOk) ==
    IF warmOk THEN "nil" ELSE "errFailedToBootstrap"

warmupResult(warmOk) == IF warmOk THEN "nil" ELSE "errDHTBootstrap"

bootstrap(h, reg, connOk, warmOk) ==
    LET r == bootLoop(reg, h.id, connOk, 0, [failed |-> 0, attempted |-> <<>>])
        stop == allFailed(r.failed, Len(reg))
    IN [host |-> h.index,
        self |-> h.id,
        registry |-> reg,
        attempted |-> r.attempted,
        failed |-> r.failed,
        warmup |-> ~stop,
        warmups |-> IF stop THEN 0 ELSE 1,
        result |-> IF stop THEN "errFailedToBootstrap" ELSE warmupResult(warmOk)]

\* the states a node's key file node-<i>.key can be in when newHost runs
KeyFiles == {"absent", "valid", "corrupt"}

\* loadKey(file): the key of a well-formed file; an error for a missing file
\* and for a file whose content is not a key
loadKey(keyFile) ==
    IF keyFile = "valid" THEN "nil"
    ELSE IF keyFile = "absent" THEN "no such file" ELSE "corrupt key"

\* key, err := loadKey(cfg.KeyFile)
\* if err != nil { key, err = generateKey(0, cfg.KeyFile)
\*                 if err != nil { return nil, err } }
nodeKey(i, keyFile, genOk) ==
    IF loadKey(keyFile) = "nil"
    THEN [host |-> i, file |-> keyFile, key |-> "loaded", err |-> "nil"]
    ELSE IF genOk
    THEN [host |-> i, file |-> keyFile, key |-> "generated", err |-> "nil"]
    ELSE [host |-> i, file |-> keyFile, key |-> "none", err |-> "generateKey"]

\* Go's append(s, e), as run() uses it on bootnodes and hosts
append_mutPrepend(s, e) == <<e>> \o s

append(s, e) == Append(s, e)

InitTester ==
    /\ RpcIdle
    /\ ClientIdle
    /\ count \in 0..MaxHosts
    /\ autoTest \in BOOLEAN
    /\ testerCids \in {getTestCIDs(n) : n \in 0..MaxCids}
    /\ hosts = <<>>
    /\ bootnodes = <<>>
    /\ runPc = "create"
    /\ runI = 0
    /\ boot = NoBoot
    /\ startErr = "none"
    /\ initProvides = <<>>
    /\ server = "none"
    /\ round = NoRound
    /\ testerExit = "running"
    /\ runErr = "none"
    /\ lastStop = NoStop
    /\ keyLoad = NoKeyLoad

\* for i := 0; i < count; i++ { h, err := newHost(cfg); ...
\*     bootnodes = append(bootnodes, h.addrInfo()); hosts = append(hosts, h) }
CreateHost ==
    /\ runPc = "create"
    /\ testerExit = "running"
    /\ Len(hosts) < count
    /\ \E keyFile \in KeyFiles, genOk \in BOOLEAN, built \in BOOLEAN :
          LET k == nodeKey(Len(hosts), keyFile, genOk)
              created == k.err = "nil" /\ built
          IN /\ k.key = "loaded" => genOk
             /\ k.err # "nil" => built
             /\ keyLoad' = k
             /\ IF created
                THEN /\ hosts' = append(hosts, newHost(Len(hosts), autoTest))
                     /\ bootnodes' = append(bootnodes, PeerID(Len(hosts)))
                     /\ UNCHANGED <<runPc, testerExit, runErr>>
                ELSE /\ runPc' = "returned"
                     /\ testerExit' = "exit1"
                     /\ runErr' = "newHost"
                     /\ UNCHANGED <<hosts, bootnodes>>
    /\ UNCHANGED <<count, autoTest, testerCids, runI, boot, startErr, initProvides,
                   server, round, lastStop>>
    /\ UNCHANGED <<rpcVars, clientVars>>

\* the creation loop is over: time.Sleep, then the start loop
CreateDone ==
    /\ runPc = "create"
    /\ testerExit = "running"
    /\ Len(hosts) >= count
    /\ runPc' = "start"
    /\ runI' = 0
    /\ keyLoad' = NoKeyLoad
    /\ UNCHANGED <<count, autoTest, testerCids, hosts, bootnodes, boot, startErr,
                   initProvides, server, round, testerExit, runErr, lastStop>>
    /\ UNCHANGED <<rpcVars, clientVars>>

\* run() is at "for i, h := range hosts { err := h.start() ..."
canStart_mutRightAfterCreate(pc, i, n) == pc \in {"create", "start"} /\ i < n

canStart(pc, i, n) == pc = "start" /\ i < n

\* start() reaches "go func() { ... }" only past its two "return err"
launches_mutBeforeBootstrap(err) == TRUE

launches(err) == err = "nil"

\* h.start(): bootstrap, rand.Int, then the ticker and its goroutine
StartHost ==
    /\ testerExit = "running"
    /\ canStart(runPc, runI, Len(hosts))
    /\ \E connOk \in [1..Len(bootnodes) -> BOOLEAN], warmOk \in BOOLEAN, randOk \in BOOLEAN :
          LET h == hosts[runI + 1]
              b == bootstrap(h, bootnodes, connOk, warmOk)
              err == IF b.result # "nil" THEN b.result
                     ELSE IF ~randOk THEN "errRand" ELSE "nil"
          IN /\ boot' = b
             /\ startErr' = err
             /\ hosts' = [hosts EXCEPT ![runI + 1].task =
                                         IF launches(err) THEN "running" ELSE @]
             /\ IF err = "nil"
                THEN /\ runI' = runI + 1
                     /\ UNCHANGED <<runPc, testerExit, runErr>>
                ELSE /\ runPc' = "returned"
                     /\ testerExit' = "exit1"
                     /\ runErr' = "start"
                     /\ UNCHANGED runI
    /\ UNCHANGED <<count, autoTest, testerCids, bootnodes, initProvides, server, round,
                   lastStop, keyLoad>>
    /\ UNCHANGED <<rpcVars, clientVars>>

\* after the start loop: one host provides each test CID (idx := i % count),
\* then NewServer and server.Start()
ProvideAndServe ==
    /\ runPc = "start"
    /\ testerExit = "running"
    /\ runI >= Len(hosts)
    /\ IF Len(testerCids) > 0 /\ count = 0
       THEN /\ runPc' = "returned"
            /\ testerExit' = "panic"
            /\ runErr' = "divide by zero"
            /\ UNCHANGED <<initProvides, server>>
       ELSE \E oks \in [1..Len(testerCids) -> BOOLEAN], listenOk \in BOOLEAN :
               /\ initProvides' =
                     [k \in 1..Len(testerCids) |->
                         [host |-> (k - 1) % count, op |-> "provide",
                          cid |-> testerCids[k], ok |-> oks[k]]]
               /\ IF listenOk
                  THEN /\ server' = "serving"
                       /\ runPc' = "wait"
                       /\ UNCHANGED <<testerExit, runErr>>
                  ELSE /\ runPc' = "returned"
                       /\ testerExit' = "exit1"
                       /\ runErr' = "NewServer"
                       /\ UNCHANGED server
    /\ UNCHANGED <<count, autoTest, testerCids, hosts, bootnodes, runI, boot, startErr,
                   round, lastStop, keyLoad>>
    /\ UNCHANGED <<rpcVars, clientVars>>

\* <-time.After(duration)
DurationElapsed ==
    /\ runPc = "wait"
    /\ testerExit = "running"
    /\ runPc' = "stop"
    /\ runI' = 0
    /\ UNCHANGED <<count, autoTest, testerCids, hosts, bootnodes, boot, startErr,
                   initProvides, server, round, testerExit, runErr, lastStop, keyLoad>>
    /\ UNCHANGED <<rpcVars, clientVars>>

\* host.stop(): h.cancel(), then h.h.Close(), whose error is returned wrapped
stop_mutCloseFirst(h, closeOk) ==
    [host |-> h.index,
     events |-> IF closeOk THEN <<"close", "cancel">> ELSE <<"close">>,
     cancelled |-> closeOk,
     closed |-> closeOk,
     err |-> IF closeOk THEN "nil" ELSE "failed to close host"]

stop(h, closeOk) ==
    [host |-> h.index,
     events |-> <<"cancel", "close">>,
     cancelled |-> TRUE,
     closed |-> closeOk,
     err |-> IF closeOk THEN "nil" ELSE "failed to close host"]

\* for _, h := range hosts { err := h.stop(); if err != nil { return err } }
StopHost ==
    /\ runPc = "stop"
    /\ testerExit = "running"
    /\ runI < Len(hosts)
    /\ \E closeOk \in BOOLEAN :
          LET s == stop(hosts[runI + 1], closeOk)
          IN /\ lastStop' = s
             /\ hosts' = [hosts EXCEPT ![runI + 1].cancelled = s.cancelled,
                                       ![runI + 1].closed = s.closed]
             /\ IF s.err = "nil"
                THEN /\ runI' = runI + 1
                     /\ UNCHANGED <<runPc, testerExit, runErr>>
                ELSE /\ runPc' = "returned"
                     /\ testerExit' = "exit1"
                     /\ runErr' = "stop"
                     /\ UNCHANGED runI
    /\ UNCHANGED <<count, autoTest, testerCids, bootnodes, boot, startErr, initProvides,
                   server, round, keyLoad>>
    /\ UNCHANGED <<rpcVars, clientVars>>

\* _ = server.Stop(); return nil
StopServer ==
    /\ runPc = "stop"
    /\ testerExit = "running"
    /\ runI >= Len(hosts)
    /\ server' = "closed"
    /\ runPc' = "returned"
    /\ testerExit' = "exit0"
    /\ UNCHANGED <<count, autoTest, testerCids, hosts, bootnodes, runI, boot, startErr,
                   initProvides, round, runErr, lastStop, keyLoad>>
    /\ UNCHANGED <<rpcVars, clientVars>>

\* one pass of the select of a host's periodic goroutine: <-h.ctx.Done()
\* stops the ticker and returns; <-ticker.C does nothing without autoTest,
\* otherwise provides getRandTestCID() and looks up getRandTestCID(), where
\* rand.Int panics when len(cids) is 0
\* if !h.autoTest { continue }
skipsRound_mutNever(auto) == FALSE

skipsRound(auto) == ~auto

Tick ==
    /\ testerExit = "running"
    /\ \E k \in 1..Len(hosts) :
          /\ hosts[k].task = "running"
          /\ \/ /\ hosts[k].cancelled
                /\ hosts' = [hosts EXCEPT ![k].task = "exited"]
                /\ UNCHANGED <<round, testerExit, runPc, runErr>>
             \/ /\ skipsRound(hosts[k].autoTest)
                /\ round' = [host |-> hosts[k].index, ops |-> <<>>,
                             provided |-> NoKey, lookedUp |-> NoKey]
                /\ UNCHANGED <<hosts, testerExit, runPc, runErr>>
             \/ /\ ~skipsRound(hosts[k].autoTest)
                /\ IF Len(testerCids) = 0
                   THEN /\ testerExit' = "panic"
                        /\ runPc' = "returned"
                        /\ runErr' = "getRandTestCID"
                        /\ UNCHANGED <<hosts, round>>
                   ELSE \E r1 \in 1..Len(testerCids), r2 \in 1..Len(testerCids) :
                           /\ round' = [host |-> hosts[k].index,
                                        ops |-> <<"provide", "lookup">>,
                                        provided |-> testerCids[r1],
                                        lookedUp |-> testerCids[r2]]
                           /\ UNCHANGED <<hosts, testerExit, runPc, runErr>>
    /\ UNCHANGED <<count, autoTest, testerCids, bootnodes, runI, boot, startErr,
                   initProvides, server, lastStop, keyLoad>>
    /\ UNCHANGED <<rpcVars, clientVars>>

Next ==
    \/ CreateHost
    \/ CreateDone
    \/ StartHost
    \/ ProvideAndServe
    \/ DurationElapsed
    \/ StopHost
    \/ StopServer
    \/ Tick

Init == InitTester

Spec == Init /\ [][Next]_vars

\* ---- run() without auto-test and without test CIDs, together with the
\* requests its server dispatches
\* a request that httpServer.Serve accepts, from server.Start() until
\* server.Stop(), and that a handler dispatches to s.hosts[req.HostIndex]:
\* the node it reaches, and whether that node was started and stopped
Dispatch ==
    /\ testerExit = "running"
    /\ server = "serving"
    /\ \E i \in 0..(Len(hosts) - 1) :
          nodeCalls' = <<[host |-> i, op |-> "dispatch",
                          started |-> hosts[i + 1].task # "none",
                          stopped |-> hosts[i + 1].cancelled]>>
    /\ UNCHANGED <<svcHosts, rpcReq, rpcResp, cliOut>>
    /\ UNCHANGED <<clientVars, testerVars>>

InitServe ==
    /\ RpcIdle
    /\ ClientIdle
    /\ count \in 0..MaxHosts
    /\ autoTest = FALSE
    /\ testerCids = <<>>
    /\ hosts = <<>>
    /\ bootnodes = <<>>
    /\ runPc = "create"
    /\ runI = 0
    /\ boot = NoBoot
    /\ startErr = "none"
    /\ initProvides = <<>>
    /\ server = "none"
    /\ round = NoRound
    /\ testerExit = "running"
    /\ runErr = "none"
    /\ lastStop = NoStop
    /\ keyLoad = NoKeyLoad

NextServe ==
    \/ Next
    \/ Dispatch

SpecServe == InitServe /\ [][NextServe]_vars

\* ---- the same under a fair scheduler: the select of a task whose context is
\* cancelled takes <-h.ctx.Done() if it is run often enough, and run() itself
\* goes on while it can
taskReturns(k) ==
    /\ Tick
    /\ k <= Len(hosts)
    /\ hosts[k].task = "running"
    /\ hosts'[k].task = "exited"

runSteps ==
    \/ CreateHost
    \/ CreateDone
    \/ StartHost
    \/ ProvideAndServe
    \/ DurationElapsed
    \/ StopHost
    \/ StopServer

Fairness ==
    /\ WF_vars(runSteps)
    /\ \A k \in 1..MaxHosts : SF_vars(taskReturns(k))

SpecLive == InitServe /\ [][NextServe]_vars /\ Fairness

\* ---- host.start() alone, over any list of distinct bootnodes
DistinctSeqs(S, n) ==
    {q \in SeqsUpTo(S, n) : \A a, b \in 1..Len(q) : a # b => q[a] # q[b]}

InitBoot ==
    /\ RpcIdle
    /\ ClientIdle
    /\ count = 1
    /\ autoTest \in BOOLEAN
    /\ testerCids \in {getTestCIDs(n) : n \in 0..MaxCids}
    /\ \E i \in 0..(MaxHosts - 1) : hosts = <<newHost(i, autoTest)>>
    /\ bootnodes \in DistinctSeqs({PeerID(i) : i \in 0..(MaxHosts - 1)}, MaxHosts)
    /\ runPc = "start"
    /\ runI = 0
    /\ boot = NoBoot
    /\ startErr = "none"
    /\ initProvides = <<>>
    /\ server = "none"
    /\ round = NoRound
    /\ testerExit = "running"
    /\ runErr = "none"
    /\ lastStop = NoStop
    /\ keyLoad = NoKeyLoad

NextBoot ==
    \/ StartHost
    \/ Tick

SpecBoot == InitBoot /\ [][NextBoot]_vars

\* ---- host.start() of the last node of a fleet of up to MaxRegistry nodes,
\* whose registry run() has filled in index order
InitCap ==
    /\ RpcIdle
    /\ ClientIdle
    /\ count = 1
    /\ autoTest = FALSE
    /\ testerCids = <<>>
    /\ \E n \in 1..MaxRegistry :
          /\ hosts = <<newHost(n - 1, autoTest)>>
          /\ bootnodes = [k \in 1..n |-> PeerID(k - 1)]
    /\ runPc = "start"
    /\ runI = 0
    /\ boot = NoBoot
    /\ startErr = "none"
    /\ initProvides = <<>>
    /\ server = "none"
    /\ round = NoRound
    /\ testerExit = "running"
    /\ runErr = "none"
    /\ lastStop = NoStop
    /\ keyLoad = NoKeyLoad

NextCap == StartHost

SpecCap == InitCap /\ [][NextCap]_vars

\* ------------------------------------------------------ claims, bootstrap
passRun == boot # NoBoot

\* C6: a bootstrap pass over a non-empty registry in which every attempted
\* connection failed (and at least one was attempted) returns
\* errFailedToBootstrap.
C6_AllFailedIsFailed ==
    (/\ passRun
     /\ Len(boot.registry) # 0
     /\ Len(boot.attempted) > 0
     /\ \A k \in 1..Len(boot.attempted) : ~boot.attempted[k].ok)
        => (boot.result = "errFailedToBootstrap" /\ startErr = "errFailedToBootstrap")

\* C7: a bootstrap pass in which at least one connection attempt succeeded
\* does not return errFailedToBootstrap, whatever the number of failed
\* attempts: the warm-up step is run, and start() returns that error only if
\* it is the warm-up's (bootstrap returns nil when the warm-up succeeds).
C7_OneSuccessNeverFailed ==
    (passRun /\ \E k \in 1..Len(boot.attempted) : boot.attempted[k].ok)
        => /\ boot.result # "errFailedToBootstrap"
           /\ startErr # "errFailedToBootstrap"
           /\ boot.warmup
           /\ boot.result \in {"nil", "errDHTBootstrap"}

C7_Witness ==
    /\ passRun
    /\ Len(boot.attempted) = 2
    /\ boot.attempted[1].ok
    /\ ~boot.attempted[2].ok
    /\ boot.failed = 1
    /\ boot.result = "nil"
    /\ hosts[1].task = "running"

\* C8: a bootstrap pass over an empty registry attempts no connection and does
\* not return errFailedToBootstrap: the warm-up step is run and decides the
\* result.
C8_EmptyRegistryBootstraps ==
    (passRun /\ boot.registry = <<>>)
        => /\ boot.attempted = <<>>
           /\ boot.failed = 0
           /\ boot.result # "errFailedToBootstrap"
           /\ boot.warmup

C8_Witness ==
    /\ passRun
    /\ boot.registry = <<>>
    /\ boot.result = "nil"
    /\ startErr = "nil"
    /\ hosts[1].task = "running"

\* C9: no connection of a bootstrap pass is attempted to a registry entry that
\* carries the node's own peer identifier, and the failure count is the
\* number of attempted connections that failed (a skipped entry is not
\* counted as a failure).
C9_NeverBootstrapsToSelf ==
    passRun =>
        /\ \A k \in 1..Len(boot.attempted) :
              boot.registry[boot.attempted[k].entry + 1] # boot.self
        /\ boot.failed =
              Cardinality({k \in 1..Len(boot.attempted) : ~boot.attempted[k].ok})

C9_Witness ==
    /\ passRun
    /\ Len(boot.registry) = 3
    /\ boot.registry[2] = boot.self
    /\ Len(boot.attempted) = 2
    /\ boot.failed = 2

\* C10: when start() is first invoked every node of the fleet has been created
\* and its record appended to the registry, one per node in index order; from
\* then on the registry is never changed.
C10_AllCreatedBeforeAnyStart ==
    [][/\ passRun' =>
            /\ Len(hosts') = count
            /\ bootnodes' = [k \in 1..count |-> PeerID(k - 1)]
       /\ passRun => bootnodes' = bootnodes
      ]_vars

C10_Witness ==
    /\ passRun
    /\ count = 3
    /\ boot.host = 0
    /\ Len(bootnodes) = 3
    /\ runPc = "start"

\* C29: the number of connections attempted in one bootstrap pass is at most
\* a fixed cap (numPeers + 2, the most a pass without failures attempts),
\* whatever the size of the registry and the outcome of the attempts.
C29_AttemptsCapped ==
    passRun => Len(boot.attempted) <= numPeers + 2

\* C30: the warm-up (dht.Bootstrap) is run exactly when the connection phase
\* did not end in errFailedToBootstrap, and once; its error is what bootstrap
\* and start() return, and is not errFailedToBootstrap.
C30_WarmupAfterConnections ==
    passRun =>
        /\ boot.warmup <=> ~allFailed(boot.failed, Len(boot.registry))
        /\ boot.warmups = IF boot.warmup THEN 1 ELSE 0
        /\ boot.result = "errFailedToBootstrap" <=> ~boot.warmup
        /\ boot.result # "nil" => startErr = boot.result

C30_Witness ==
    /\ passRun
    /\ Len(boot.attempted) = 2
    /\ boot.failed = 1
    /\ boot.warmup
    /\ boot.result = "errDHTBootstrap"
    /\ startErr = "errDHTBootstrap"
    /\ hosts[1].task = "none"

\* C31: a node of a fleet of count nodes runs its bootstrap pass over a
\* registry of exactly count records, the record of node k at position k (its
\* own included); and every step leaves the registry as it is or appends to
\* it, never removing or changing an entry.
C31_RegistryCompleteAppendOnly ==
    /\ [](passRun =>
            /\ boot.registry = [k \in 1..count |-> PeerID(k - 1)]
            /\ boot.registry[boot.host + 1] = boot.self
            /\ bootnodes = boot.registry)
    /\ [][/\ Len(bootnodes') >= Len(bootnodes)
          /\ SubSeq(bootnodes', 1, Len(bootnodes)) = bootnodes]_vars

C31_Witness ==
    /\ passRun
    /\ count = MaxHosts
    /\ boot.host = 1
    /\ Len(boot.registry) = MaxHosts
    /\ Len(boot.attempted) = MaxHosts - 1

\* ------------------------------------------------- claims, run() and host
\* C11: when run() has returned the error of a newHost() or of a start(), every
\* host created so far has been stopped (its context cancelled and its
\* endpoint closed), and the RPC server was never started.
C11_AbortLeavesNoNodeRunning ==
    runErr \in {"newHost", "start"} =>
        /\ server = "none"
        /\ \A k \in 1..Len(hosts) : hosts[k].cancelled /\ hosts[k].closed

\* C12: when run() has returned after the duration elapsed, with nil or with
\* the error of some stop(), stop() has been called on every host (each
\* context is cancelled) and the RPC server has been stopped.
C12_ShutdownStopsEveryNodeAndServer ==
    (runPc = "returned" /\ runErr \in {"none", "stop"}) =>
        /\ server = "closed"
        /\ \A k \in 1..Len(hosts) : hosts[k].cancelled

\* C15: every stop() cancels the host's context before it closes the endpoint,
\* returns an error exactly when the close failed, and leaves the context
\* cancelled in that case too.
C15_StopCancelsBeforeClose ==
    lastStop # NoStop =>
        /\ \E i \in 1..Len(lastStop.events) : lastStop.events[i] = "close"
        /\ \A i \in 1..Len(lastStop.events) :
              lastStop.events[i] = "close" =>
                  \E j \in 1..(i - 1) : lastStop.events[j] = "cancel"
        /\ lastStop.err # "nil" <=> ~lastStop.closed
        /\ hosts[lastStop.host + 1].cancelled
        /\ hosts[lastStop.host + 1].closed = lastStop.closed

C15_Witness ==
    /\ lastStop # NoStop
    /\ lastStop.host = 1
    /\ lastStop.err # "nil"
    /\ hosts[2].cancelled
    /\ ~hosts[2].closed
    /\ hosts[1].closed
    /\ runErr = "stop"

\* C16: the periodic task of a host comes into being only in a step in which
\* the bootstrap of that host returned nil, and after a start() whose
\* bootstrap returned an error that host has no periodic task.
C16_TaskOnlyAfterBootstrap ==
    [][/\ \A k \in 1..Len(hosts) :
             (hosts[k].task = "none" /\ hosts'[k].task # "none")
                 => (boot'.host = hosts'[k].index /\ boot'.result = "nil")
       /\ (passRun' /\ boot'.result # "nil")
             => /\ startErr' = boot'.result
                /\ \A k \in 1..Len(hosts') :
                      hosts'[k].index = boot'.host => hosts'[k].task = "none"
      ]_vars

C16_Witness ==
    /\ passRun
    /\ boot.host = 1
    /\ boot.result = "errDHTBootstrap"
    /\ startErr = "errDHTBootstrap"
    /\ hosts[1].task = "running"
    /\ hosts[2].task = "none"
    /\ runErr = "start"

\* C17: a periodic task ends only because its host's context was cancelled,
\* and no round of a periodic task (the choice of its identifier included)
\* ends the process, whatever --auto and the number of test CIDs are.
C17_TaskRunsUntilStop ==
    /\ runErr # "getRandTestCID"
    /\ \A k \in 1..Len(hosts) : hosts[k].task = "exited" => hosts[k].cancelled

\* C18: in an auto-test round the identifier looked up is the identifier
\* provided in that round.
C18_RoundLooksUpWhatItProvided ==
    round # NoRound => round.lookedUp = round.provided

\* C23: newHost generates a key when the node's key file is absent, and
\* fails with the key-load error, generating nothing, when the key file
\* holds corrupt data.
C23_CorruptKeyFailsCreation ==
    keyLoad # NoKeyLoad =>
        /\ (keyLoad.file = "absent" /\ keyLoad.err = "nil") => keyLoad.key = "generated"
        /\ keyLoad.file = "corrupt" =>
              /\ keyLoad.key = "none"
              /\ keyLoad.err = loadKey("corrupt")
              /\ runErr = "newHost"

\* C33: without auto-test, a tick of the periodic task issues no provide and
\* no lookup, and leaves every node, the registry, the fleet manager's
\* provides and the server as they are.
C33_TickWithoutAutoTestIsIdle ==
    /\ [](round # NoRound /\ ~autoTest =>
            round.ops = <<>> /\ round.provided = NoKey /\ round.lookedUp = NoKey)
    /\ [][round' # round /\ ~autoTest =>
            UNCHANGED <<hosts, bootnodes, initProvides, server, rpcVars>>]_vars

C33_Witness ==
    /\ ~autoTest
    /\ Len(testerCids) > 0
    /\ round # NoRound
    /\ round.ops = <<>>
    /\ hosts[round.host + 1].task = "running"
    /\ Len(initProvides) > 0

\* C34: once stop() has cancelled a node's context, the node's periodic task
\* begins no new provide/lookup round.
C34_NoRoundAfterCancel ==
    [][round' # round /\ round'.ops # <<>> =>
          ~hosts[round'.host + 1].cancelled]_vars

\* C35: after stop() has been called on a started node, the node's periodic
\* task eventually returns (having stopped its ticker).
C35_TaskEventuallyReturns ==
    \A k \in 1..MaxHosts :
        (k <= Len(hosts) /\ hosts[k].cancelled /\ hosts[k].task = "running")
            ~> (k <= Len(hosts) /\ hosts[k].task = "exited")

\* C32: every request the server dispatches reaches a node that has been
\* started and has not been stopped: the server serves only once every node
\* has started, and no longer once stop() has been called on a node.
C32_DispatchReachesLiveNode ==
    /\ server = "serving" =>
          \A k \in 1..Len(hosts) : hosts[k].task # "none" /\ ~hosts[k].cancelled
    /\ \A k \in 1..Len(nodeCalls) :
          nodeCalls[k].op = "dispatch" =>
             nodeCalls[k].started /\ ~nodeCalls[k].stopped

\* ================================ the test CIDs of the two programs
\* getTestCIDs of the tester: mh.Sum(append([]byte(base), byte(i)), ...), the
\* base label followed by the single byte byte(i)
testerTestCID(i) == <<"dhttest", <<i % ByteRange>>>>

testerGetTestCIDs(n) == [k \in 1..n |-> testerTestCID(k - 1)]

InitGen ==
    /\ RpcIdle
    /\ ClientIdle
    /\ TesterIdle

\* tester, run(): cids = getTestCIDs(c.Int(flagTestCIDsCount))
TesterGenerate ==
    /\ runPc = "off"
    /\ \E n \in 0..MaxGenCount : testerCids' = testerGetTestCIDs(n)
    /\ runPc' = "create"
    /\ UNCHANGED <<count, autoTest, hosts, bootnodes, runI, boot, startErr,
                   initProvides, server, round, testerExit, runErr, lastStop, keyLoad>>
    /\ UNCHANGED <<rpcVars, clientVars>>

\* test client, run(): cids = getTestCIDs(c.Int(flagTestCIDsCount))
ClientGenerate ==
    /\ mainPc = "off"
    /\ \E n \in 0..MaxGenCount : cids' = getTestCIDs(n)
    /\ mainPc' = "numHosts"
    /\ UNCHANGED <<numHosts, provides, provideLog, assignIdx, exit, lkPc, lkKeys,
                   lkKey, lkI, keyIdx, lookupLog, lkLast, lkErr, doneCh,
                   budgetExpired>>
    /\ UNCHANGED <<rpcVars, testerVars>>

NextGen ==
    \/ TesterGenerate
    \/ ClientGenerate

SpecGen == InitGen /\ [][NextGen]_vars

\* ---- one program, the tester or the test client, started with a
\* --num-test-cids of up to MaxManyCids
InitMany ==
    /\ RpcIdle
    /\ ClientIdle
    /\ TesterIdle

TesterGenerateMany ==
    /\ runPc = "off"
    /\ mainPc = "off"
    /\ \E n \in 0..MaxManyCids : testerCids' = testerGetTestCIDs(n)
    /\ runPc' = "create"
    /\ UNCHANGED <<count, autoTest, hosts, bootnodes, runI, boot, startErr,
                   initProvides, server, round, testerExit, runErr, lastStop, keyLoad>>
    /\ UNCHANGED <<rpcVars, clientVars>>

ClientGenerateMany ==
    /\ mainPc = "off"
    /\ runPc = "off"
    /\ \E n \in 0..MaxManyCids : cids' = getTestCIDs(n)
    /\ mainPc' = "numHosts"
    /\ UNCHANGED <<numHosts, provides, provideLog, assignIdx, exit, lkPc, lkKeys,
                   lkKey, lkI, keyIdx, lookupLog, lkLast, lkErr, doneCh,
                   budgetExpired>>
    /\ UNCHANGED <<rpcVars, testerVars>>

NextMany ==
    \/ TesterGenerateMany
    \/ ClientGenerateMany

SpecMany == InitMany /\ [][NextMany]_vars

\* the elements of a sequence are pairwise different
injective(q) == Cardinality({q[k] : k \in 1..Len(q)}) = Len(q)

\* C38: no two positions of a generated sequence of test CIDs carry the same
\* hash input, whatever the count, in the tester and in the test client.
C38_GeneratorInjective ==
    /\ runPc = "create" => injective(testerCids)
    /\ mainPc = "numHosts" => injective(cids)

\* C20: when the tester and the test client have generated their test CIDs for
\* the same count, the two sequences are equal, and every element is the
\* base label followed by the little-endian encoding of its index.
C20_TesterAndClientAgree ==
    (runPc = "create" /\ mainPc = "numHosts" /\ Len(testerCids) = Len(cids))
        => /\ testerCids = cids
           /\ \A k \in 1..Len(cids) :
                 /\ cids[k] = <<"dhttest", LittleEndianPutUint64(k - 1)>>
                 /\ testerCids[k] = <<"dhttest", LittleEndianPutUint64(k - 1)>>

====
